---- MODULE Spec2Model ----
(***************************************************************************)
(* Model of src/src/main.rs: a hyper server that serves files below a     *)
(* root folder and runs the files below <root>/scripts as child processes *)
(* (handle_request, handle_script, log_request, main).                    *)
(*                                                                         *)
(* Paths are sequences of components (std::path::Path compares paths      *)
(* component by component).  Bytes are abstract tokens (strings); a body, *)
(* a file's contents, stdout and stderr are sequences of tokens.          *)
(***************************************************************************)
EXTENDS Integers, Sequences, FiniteSets, TLC

\* ------------------------------------------------------------------ bounds
MaxSegs == 4          \* longest request path, in segments
MaxHeaders == 2       \* most headers of a request
MaxParams == 2        \* most parameters of a query string

\* Connections.  Requests share nothing (handle_request gets its own clone of
\* root), so Spec follows the requests of one connection, one after another.
Slots == { "c1", "c2" }

\* -------------------------------------------------------- the filesystem
\* The root folder given on the command line (main.rs:264), as components:
\* set once at startup, then cloned for every connection and request
\* (main.rs:273, 277).
VARIABLE root

Root == root

\* Folders the server may be started on.
Roots == { <<"www">>, <<"srv">> }

\* The directories that exist; <<>> is the filesystem root "/".
Dirs == { <<>>, <<"www">>, <<"www", "sub">>, <<"www", "scripts">>, <<"srv">> }

\* The regular files that exist, with their bytes and their execute bit.
\* "/index.html" and "/run.sh" lie outside both folders; "/srv" has neither a
\* forbidden.html nor a scripts folder.
Files ==
    ( <<"www", "index.html">>        :> [bytes |-> <<"i1", "i2">>, exec |-> FALSE] ) @@
    ( <<"www", "forbidden.html">>    :> [bytes |-> <<"f1">>,       exec |-> FALSE] ) @@
    ( <<"www", "scripts", "run.sh">> :> [bytes |-> <<"r1">>,       exec |-> TRUE ] ) @@
    ( <<"www", "scripts", "simple.sh">> :> [bytes |-> <<"s1">>,    exec |-> TRUE ] ) @@
    ( <<"srv", "index.html">>        :> [bytes |-> <<"v1">>,       exec |-> FALSE] ) @@
    ( <<"index.html">>               :> [bytes |-> <<"x1", "x2">>, exec |-> FALSE] ) @@
    ( <<"run.sh">>                   :> [bytes |-> <<"y1">>,       exec |-> TRUE ] )

\* Segments a request path is made of.
Segs == { "..", "scripts", "index.html", "forbidden.html",
          "simple.sh", "run.sh", "sub", "missing" }

Paths == UNION { [1..n -> Segs] : n \in 0..MaxSegs }

Methods == { "GET", "POST", "PUT" }

\* Bodies a client sends, and what a script may print.
Bodies == { <<>>, <<"b1", "b2">> }
Outputs == { <<>>, <<"o1">> }
ErrOutputs == { <<>>, <<"e1">> }
ExitCodes == { 0, 1, 2 }

\* Headers of a request: a name (hyper keeps it in lower case), the value's
\* bytes, and whether HeaderValue::to_str accepts them (visible ASCII).
Headers ==
    [ name : { "host", "x-a" },
      value : { <<"v1">> },
      visible : { TRUE } ]
    \cup
    [ name : { "host", "x-a" },
      value : { <<"\\xff">> },
      visible : { FALSE } ]

HeaderLists == UNION { [1..n -> Headers] : n \in 0..MaxHeaders }

\* Parameters of a query string, as form_urlencoded::parse yields them.
Params == [ key : { "a", "b" }, value : { <<"1">>, <<"2">> } ]

Queries ==
    { [some |-> FALSE, pairs |-> << >>] } \cup
    { [some |-> TRUE, pairs |-> ps] :
          ps \in UNION { [1..n -> Params] : n \in 0..MaxParams } }

\* ------------------------------------------------------------ path algebra
\* Path::starts_with: component-wise prefix, ".." is an ordinary component.
StartsWith(p, q) == Len(q) <= Len(p) /\ SubSeq(p, 1, Len(q)) = q

\* root.join(path.trim_start_matches('/')): the request path is relative
\* after trimming, so join appends its components.
Join(base, rel) == base \o rel

Parent(d) == IF d = <<>> THEN <<>> ELSE SubSeq(d, 1, Len(d) - 1)

\* What the kernel does with a path: walk it component by component from
\* "/"; every component but the last must be an existing directory and ".."
\* moves to the parent.  Yields the place reached, or ok = FALSE (ENOENT,
\* ENOTDIR).
RECURSIVE Walk(_, _)
Walk(cur, rest) ==
    IF rest = <<>> THEN [ok |-> TRUE, at |-> cur]
    ELSE IF cur \notin Dirs THEN [ok |-> FALSE, at |-> cur]
    ELSE IF Head(rest) = ".." THEN Walk(Parent(cur), Tail(rest))
    ELSE IF (cur \o <<Head(rest)>>) \in (Dirs \cup DOMAIN Files)
         THEN Walk(cur \o <<Head(rest)>>, Tail(rest))
         ELSE [ok |-> FALSE, at |-> cur]

Lookup(p) == Walk(<<>>, p)

\* Path::is_dir, Path::is_file: metadata of what the path resolves to.
IsDir(p) == Lookup(p).ok /\ Lookup(p).at \in Dirs
IsFile(p) == Lookup(p).ok /\ Lookup(p).at \in DOMAIN Files

\* A deny path that only denies a file that is there.
IsForbiddenPathIfFile(path) ==
    path = <<"forbidden.html">> /\ IsFile(Join(Root, path))

\* path == "/forbidden.html"
IsForbiddenPath(path) == path = <<"forbidden.html">>

\* path.ends_with("simple.sh"): of the segments above only "simple.sh" ends
\* in that text, and the path string ends with its last segment.
EndsWithSimpleSh(path) == Len(path) > 0 /\ path[Len(path)] \in { "simple.sh" }

ScriptsDir == Join(Root, <<"scripts">>)

\* Route without the method gate of main.rs:45: every request that is neither
\* forbidden nor routed to a script is served as a file.
RouteNoMethodGate(method, path) ==
    LET full_path == Join(Root, path) IN
    IF IsDir(full_path) \/ ~StartsWith(full_path, Root) THEN "forbidden"
    ELSE IF IsForbiddenPath(path) THEN "forbidden"
    ELSE IF StartsWith(full_path, ScriptsDir) /\ EndsWithSimpleSh(path) THEN "fixed"
    ELSE IF StartsWith(full_path, ScriptsDir) THEN "script"
    ELSE "static"

\* Route whose test of main.rs:129 forgets the scripts prefix: any existing
\* file is run for a method other than GET.
RouteAnyFileIsScript(method, path) ==
    LET full_path == Join(Root, path) IN
    IF IsDir(full_path) \/ ~StartsWith(full_path, Root) THEN "forbidden"
    ELSE IF IsForbiddenPath(path) THEN "forbidden"
    ELSE IF method = "GET" THEN
        IF StartsWith(full_path, ScriptsDir) /\ EndsWithSimpleSh(path) THEN "fixed"
        ELSE IF StartsWith(full_path, ScriptsDir) THEN "script"
        ELSE "static"
    ELSE IF IsFile(full_path) THEN "script"
    ELSE "not_allowed"

\* The if-chain of handle_request up to its first await: which branch a
\* request takes.
Route(method, path) ==
    LET full_path == Join(Root, path) IN
    IF IsDir(full_path) \/ ~StartsWith(full_path, Root) THEN "forbidden"
    ELSE IF IsForbiddenPath(path) THEN "forbidden"
    ELSE IF method = "GET" THEN
        IF StartsWith(full_path, ScriptsDir) /\ EndsWithSimpleSh(path) THEN "fixed"
        ELSE IF StartsWith(full_path, ScriptsDir) THEN "script"
        ELSE "static"
    ELSE IF StartsWith(full_path, ScriptsDir) /\ IsFile(full_path) THEN "script"
    ELSE "not_allowed"

\* ------------------------------------------------------------- environment
\* The uri path as text: a slash before every segment ("/" alone for the
\* empty path).
PathString(path) ==
    IF path = << >> THEN <<"/">>
    ELSE [i \in 1..(2 * Len(path)) |->
              IF i % 2 = 1 THEN "/" ELSE path[i \div 2]]

\* value.to_str().unwrap_or("")
ToStr(h) == IF h.visible THEN h.value ELSE << >>

\* An insert that keeps the value a key already has.
PutIfAbsent(m, k, v) ==
    [x \in (DOMAIN m) \cup {k} |-> IF x \in DOMAIN m THEN m[x] ELSE v]

\* HashMap::insert: the new value replaces the one the key had.
Put(m, k, v) ==
    [x \in (DOMAIN m) \cup {k} |-> IF x = k THEN v ELSE m[x]]

\* collect() of the headers (main.rs:167-169): one insert per header, in
\* order; a key is the header's name.
RECURSIVE CollectHeaders(_, _)
CollectHeaders(m, headers) ==
    IF headers = << >> THEN m
    ELSE CollectHeaders(Put(m, << Head(headers).name >>, ToStr(Head(headers))),
                        Tail(headers))

\* The loop of main.rs:173-177: the key is "Query_" followed by the
\* parameter's key.
RECURSIVE InsertQuery(_, _)
InsertQuery(m, pairs) ==
    IF pairs = << >> THEN m
    ELSE InsertQuery(Put(m, << "Query_", Head(pairs).key >>, Head(pairs).value),
                     Tail(pairs))

\* env_vars of handle_script (main.rs:163-177), a map from keys to text.
BuildEnv(request) ==
    LET fromHeaders == CollectHeaders(<< >>, request.headers)
        withMethod == Put(fromHeaders, << "Method" >>, << request.method >>)
        withPath == Put(withMethod, << "Path" >>, PathString(request.path))
    IN IF request.query.some
       THEN InsertQuery(withPath, request.query.pairs)
       ELSE withPath

\* --------------------------------------------------------------- responses
Response(status, headers, body) ==
    [status |-> status, headers |-> headers, body |-> body]

NoResponse == Response(0, << >>, << >>)

ConnectionClose == "Connection" :> "close"
HtmlType == "Content-Type" :> "text/html; charset=utf-8"
PlainType == "Content-Type" :> "text/plain; charset=utf-8"
ContentLength(body) == "Content-Length" :> Len(body)

\* main.rs:20-29 and 33-42
ForbiddenResponse ==
    Response(403, ConnectionClose @@ HtmlType, <<"<html>403 Forbidden</html>">>)

\* main.rs:47-57
FixedResponse ==
    Response(200, PlainType @@ ContentLength(<<"Packet received\n">>) @@ ConnectionClose,
             <<"Packet received\n">>)

\* main.rs:115-124
NotFoundResponse ==
    Response(404, ConnectionClose @@ HtmlType, <<"<html>404 Not Found</html>">>)

\* main.rs:103-111 (and the unreachable 66-74, 139-147)
InternalErrorResponse ==
    Response(500, ConnectionClose, <<"Internal Server Error">>)

\* main.rs:151-159
NotAllowedResponse ==
    Response(405, ConnectionClose, <<"Method Not Allowed">>)

\* The fall-through answer of handle_script without its Connection header.
ScriptFailedResponseBare ==
    Response(500, << >>, <<"Failed to execute script">>)

\* main.rs:243-247
ScriptFailedResponse ==
    Response(500, ConnectionClose, <<"Failed to execute script">>)

\* mime_guess::from_path(..).first_or_octet_stream() and lines 84-90, for the
\* file names of Segs.
ContentTypeOf(full_path) ==
    LET name == IF full_path = <<>> THEN "" ELSE full_path[Len(full_path)] IN
    IF name \in { "index.html", "forbidden.html" } THEN "text/html; charset=utf-8"
    ELSE IF name \in { "run.sh", "simple.sh" } THEN "application/x-sh"
    ELSE "application/octet-stream"

\* StaticResponse that loses the last byte read.
StaticResponseTruncated(full_path, contents) ==
    Response(200,
             ("Content-Type" :> ContentTypeOf(full_path)) @@ ContentLength(contents)
                 @@ ConnectionClose,
             IF contents = << >> THEN contents
             ELSE SubSeq(contents, 1, Len(contents) - 1))

\* main.rs:83-101: the whole contents read by read_to_end, status 200.
StaticResponse(full_path, contents) ==
    Response(200,
             ("Content-Type" :> ContentTypeOf(full_path)) @@ ContentLength(contents)
                 @@ ConnectionClose,
             contents)

\* PostScriptResponse that answers with stdout whatever the exit status.
PostScriptResponseStdout(code, stdout, stderr) ==
    LET response_body == stdout
        status == IF code = 0 THEN 200 ELSE 500
    IN Response(status, PlainType @@ ContentLength(response_body) @@ ConnectionClose,
                response_body)

\* An answer that serves whatever read_to_end left in the buffer.
ReadResponseUnchecked(full_path, readOk, contents) ==
    StaticResponse(full_path, contents)

\* main.rs:82-112: the buffer is served only when read_to_end returned Ok.
ReadResponse(full_path, readOk, contents) ==
    IF readOk THEN StaticResponse(full_path, contents)
    ELSE InternalErrorResponse

\* main.rs:195-215, the POST branch of handle_script;
\* output.status.success() is "exit code 0".
PostScriptResponse(code, stdout, stderr) ==
    LET response_body == IF code = 0 THEN stdout ELSE stderr
        status == IF code = 0 THEN 200 ELSE 500
    IN Response(status, PlainType @@ ContentLength(response_body) @@ ConnectionClose,
                response_body)

\* main.rs:220-240, the same mapping in the branch of the other methods.
OutputScriptResponse(code, stdout, stderr) ==
    LET response_body == IF code = 0 THEN stdout ELSE stderr
        status == IF code = 0 THEN 200 ELSE 500
    IN Response(status, PlainType @@ ContentLength(response_body) @@ ConnectionClose,
                response_body)

\* StatusCode::canonical_reason, and the literal status_text of each branch.
StatusText(status) ==
    CASE status = 200 -> "OK"
      [] status = 403 -> "Forbidden"
      [] status = 404 -> "Not Found"
      [] status = 405 -> "Method Not Allowed"
      [] status = 500 -> "Internal Server Error"
      [] OTHER -> "Unknown"

\* log_request that prints nothing.
log_request_silent(out, method, path, status, text) == out

\* log_request: one line on stdout; out is what the request has printed so
\* far.
log_request(out, method, path, status, text) ==
    Append(out, [method |-> method, path |-> path, status |-> status, text |-> text])

\* ------------------------------------------------------------------- state
VARIABLES
    pc,       \* slot -> where the connection's request is
    req,      \* slot -> the request: method and path
    resp,     \* slot -> the response handle_request built (NoResponse before)
    logs,     \* slot -> the lines log_request printed for the request
    opened,   \* slot -> the paths File::open opened for reading
    spawned,  \* slot -> the programs handle_script spawned
    child,    \* slot -> the child process
    writer,   \* slot -> the detached task writing the body to the child's stdin
    fault     \* slot -> the failure the request ran into ("none" if none)

vars == << root, pc, req, resp, logs, opened, spawned, child, writer, fault >>

\* uri.query(): None, or the pairs form_urlencoded::parse yields, in order.
NoQuery == [some |-> FALSE, pairs |-> << >>]

NoRequest == [method |-> "GET", path |-> << >>, headers |-> << >>,
              query |-> NoQuery]
NoChild == [state |-> "none", code |-> 0, stdout |-> << >>, stderr |-> << >>,
            stdin |-> << >>, env |-> << >>]
NoWriter == [state |-> "none", body |-> << >>]

\* Everything but the root folder, before the first connection.
InitRequests ==
    /\ pc = [r \in Slots |-> "idle"]
    /\ req = [r \in Slots |-> NoRequest]
    /\ resp = [r \in Slots |-> NoResponse]
    /\ logs = [r \in Slots |-> << >>]
    /\ opened = [r \in Slots |-> << >>]
    /\ spawned = [r \in Slots |-> << >>]
    /\ child = [r \in Slots |-> NoChild]
    /\ writer = [r \in Slots |-> NoWriter]
    /\ fault = [r \in Slots |-> "none"]

\* The server started on /www.
Init ==
    /\ root = <<"www">>
    /\ InitRequests

\* The server started on any of the folders.
InitRoots ==
    /\ root \in Roots
    /\ InitRequests

FullPath(r) == Join(Root, req[r].path)

\* ----------------------------------------------------------------- actions
\* hyper hands a request of the connection to the service (main.rs:272-280).
AcceptFrom(r, paths, headerLists, queries) ==
    /\ pc[r] = "idle"
    /\ \E m \in Methods, p \in paths, h \in headerLists, q \in queries :
           req' = [req EXCEPT ![r] =
                      [method |-> m, path |-> p, headers |-> h, query |-> q]]
    /\ pc' = [pc EXCEPT ![r] = "recv"]
    /\ UNCHANGED << root, resp, logs, opened, spawned, child, writer, fault >>

\* Any path; no header and no query string.
Accept(r) == AcceptFrom(r, Paths, { << >> }, { NoQuery })

\* Finish with one response buffer shared by all the connections.
FinishShared(r, response) ==
    /\ logs' = [logs EXCEPT ![r] =
                   log_request(@, req[r].method, req[r].path, response.status,
                               StatusText(response.status))]
    /\ resp' = [s \in Slots |-> response]
    /\ pc' = [pc EXCEPT ![r] = "respond"]

\* A branch of handle_request that logs and builds its response.
Finish(r, response) ==
    /\ logs' = [logs EXCEPT ![r] =
                   log_request(@, req[r].method, req[r].path, response.status,
                               StatusText(response.status))]
    /\ resp' = [resp EXCEPT ![r] = response]
    /\ pc' = [pc EXCEPT ![r] = "respond"]

\* handle_request from its entry to its first await (main.rs:15-58, 129-159).
HandleRequest(r) ==
    /\ pc[r] = "recv"
    /\ LET branch == Route(req[r].method, req[r].path) IN
       CASE branch = "forbidden" -> Finish(r, ForbiddenResponse)
         [] branch = "fixed" -> Finish(r, FixedResponse)
         [] branch = "not_allowed" -> Finish(r, NotAllowedResponse)
         [] branch = "script" ->
                /\ pc' = [pc EXCEPT ![r] = "script"]
                /\ UNCHANGED << resp, logs >>
         [] branch = "static" ->
                /\ pc' = [pc EXCEPT ![r] = "static"]
                /\ UNCHANGED << resp, logs >>
    /\ UNCHANGED << root, req, opened, spawned, child, writer, fault >>

\* Reads through one handle shared by the requests: once a request has read
\* the file the cursor is at its end and the next read yields nothing.
FileBytesSharedHandle(p) ==
    IF ~IsFile(p) THEN << >>
    ELSE IF \E s \in Slots : /\ opened[s] # << >>
                             /\ Lookup(opened[s][1]).at = Lookup(p).at
         THEN << >>
         ELSE Files[Lookup(p).at].bytes

\* The bytes of the file a path names (none if it names no file).
FileBytes(p) == IF IsFile(p) THEN Files[Lookup(p).at].bytes ELSE << >>

\* File::open(&full_path).await and read_to_end (main.rs:79-126).  open
\* fails when the path names no file, and may fail on one that exists (no
\* permission, no descriptor left); a read may fail after a successful open,
\* with any part of the file already in the buffer.
ServeStatic(r) ==
    /\ pc[r] = "static"
    /\ \E openOk \in (IF IsFile(FullPath(r)) THEN BOOLEAN ELSE {FALSE}),
          readOk \in BOOLEAN, got \in 0..Len(FileBytes(FullPath(r))) :
          IF ~openOk
          THEN /\ Finish(r, NotFoundResponse)
               /\ fault' = [fault EXCEPT ![r] =
                              IF IsFile(FullPath(r)) THEN "open" ELSE "none"]
               /\ UNCHANGED opened
          ELSE /\ opened' = [opened EXCEPT ![r] = Append(@, FullPath(r))]
               /\ LET bytes == FileBytes(FullPath(r))
                      contents == IF readOk THEN bytes
                                  ELSE SubSeq(bytes, 1, got)
                  IN /\ Finish(r, ReadResponse(FullPath(r), readOk, contents))
                     /\ fault' = [fault EXCEPT ![r] =
                                    IF readOk THEN "none" ELSE "read"]
    /\ UNCHANGED << root, req, spawned, child, writer >>

\* Command::spawn succeeds only on an existing executable file, and may fail
\* on one too (no process left).
CanSpawn(script_path) ==
    IsFile(script_path) /\ Files[Lookup(script_path).at].exec

\* .expect(..) on an Err: the task handling the connection panics and the
\* connection is dropped without a response.
Panic(r, why) ==
    /\ pc' = [pc EXCEPT ![r] = "panicked"]
    /\ fault' = [fault EXCEPT ![r] = why]

\* handle_script, POST branch up to wait_with_output (main.rs:163-192): read
\* the body, spawn with the three pipes, detach the task that writes stdin.
ScriptStartPost(r) ==
    /\ pc[r] = "script"
    /\ req[r].method = "POST"
    /\ \/ \* to_bytes(body) fails: fall through to main.rs:243, then log
          /\ Finish(r, ScriptFailedResponse)
          /\ fault' = [fault EXCEPT ![r] = "body"]
          /\ UNCHANGED << spawned, child, writer >>
       \/ \E body_bytes \in Bodies :
          \E spawnOk \in (IF CanSpawn(FullPath(r)) THEN BOOLEAN ELSE {FALSE}) :
             IF spawnOk
             THEN /\ spawned' = [spawned EXCEPT ![r] = Append(@, FullPath(r))]
                  /\ child' = [child EXCEPT ![r] = [NoChild EXCEPT !.state = "running",
                                                          !.env = BuildEnv(req[r])]]
                  /\ writer' = [writer EXCEPT ![r] =
                                   [state |-> "pending", body |-> body_bytes]]
                  /\ pc' = [pc EXCEPT ![r] = "wait"]
                  /\ UNCHANGED << resp, logs, fault >>
             ELSE /\ Panic(r, "spawn")
                  /\ UNCHANGED << resp, logs, spawned, child, writer >>
    /\ UNCHANGED << root, req, opened >>

\* handle_script, other methods: cmd.output() spawns and waits
\* (main.rs:218); the child gets no body.
ScriptStartOther(r) ==
    /\ pc[r] = "script"
    /\ req[r].method # "POST"
    /\ \E spawnOk \in (IF CanSpawn(FullPath(r)) THEN BOOLEAN ELSE {FALSE}) :
          IF spawnOk
          THEN /\ spawned' = [spawned EXCEPT ![r] = Append(@, FullPath(r))]
               /\ child' = [child EXCEPT ![r] = [NoChild EXCEPT !.state = "running",
                                                          !.env = BuildEnv(req[r])]]
               /\ pc' = [pc EXCEPT ![r] = "wait"]
               /\ UNCHANGED fault
          ELSE /\ Panic(r, "spawn")
               /\ UNCHANGED << spawned, child >>
    /\ UNCHANGED << root, req, resp, logs, opened, writer >>

\* A single write: only the first byte of the buffer reaches the pipe.
write_first(pipe, buf) ==
    pipe \o (IF buf = << >> THEN << >> ELSE << Head(buf) >>)

\* write_all (main.rs:191): the whole buffer reaches the pipe, in order.
write_all(pipe, buf) == pipe \o buf

\* The detached task of main.rs:190-192: stdin.write_all(&body_bytes).  An
\* empty write succeeds at once; otherwise the bytes enter the pipe while the
\* child holds its read end, and the write fails (and the task panics, which
\* nothing observes) once the child is gone.
WriterStep(r) ==
    /\ writer[r].state = "pending"
    /\ IF writer[r].body = << >> \/ child[r].state = "running"
       THEN /\ writer' = [writer EXCEPT ![r].state = "done"]
            /\ child' = [child EXCEPT ![r].stdin = write_all(@, writer[r].body)]
       ELSE /\ writer' = [writer EXCEPT ![r].state = "failed"]
            /\ UNCHANGED child
    /\ UNCHANGED << root, pc, req, resp, logs, opened, spawned, fault >>

\* The script ends: any exit code, any output.  A script need not read its
\* standard input before it exits.
ChildExit(r) ==
    /\ child[r].state = "running"
    /\ \E code \in ExitCodes, out \in Outputs, err \in ErrOutputs :
          child' = [child EXCEPT ![r].state = "exited", ![r].code = code,
                                 ![r].stdout = out, ![r].stderr = err]
    /\ UNCHANGED << root, pc, req, resp, logs, opened, spawned, writer, fault >>

\* wait_with_output / output completes (main.rs:194-215, 218-240), then
\* handle_request logs the status of the response (main.rs:60-64, 133-137).
\* A failed wait is an Err that .expect turns into a panic.
WaitDone(r) ==
    /\ pc[r] = "wait"
    /\ child[r].state = "exited"
    /\ \E waitOk \in BOOLEAN :
          IF waitOk
          THEN /\ Finish(r, IF req[r].method = "POST"
                              THEN PostScriptResponse(child[r].code,
                                       child[r].stdout, child[r].stderr)
                              ELSE OutputScriptResponse(child[r].code,
                                       child[r].stdout, child[r].stderr))
               /\ UNCHANGED fault
          ELSE /\ Panic(r, "wait")
               /\ UNCHANGED << resp, logs >>
    /\ UNCHANGED << root, req, opened, spawned, child, writer >>

\* return Ok(response): hyper gets the response.
Return(r) ==
    /\ pc[r] = "respond"
    /\ pc' = [pc EXCEPT ![r] = "done"]
    /\ UNCHANGED << root, req, resp, logs, opened, spawned, child, writer, fault >>

\* Close that only ever follows a returned response: a panic is never
\* recovered from.
CloseAfterResponse(r) ==
    /\ pc[r] = "done"
    /\ pc' = [pc EXCEPT ![r] = "idle"]
    /\ req' = [req EXCEPT ![r] = NoRequest]
    /\ resp' = [resp EXCEPT ![r] = NoResponse]
    /\ logs' = [logs EXCEPT ![r] = << >>]
    /\ opened' = [opened EXCEPT ![r] = << >>]
    /\ spawned' = [spawned EXCEPT ![r] = << >>]
    /\ child' = [child EXCEPT ![r] = NoChild]
    /\ writer' = [writer EXCEPT ![r] = NoWriter]
    /\ fault' = [fault EXCEPT ![r] = "none"]
    /\ UNCHANGED root

\* The exchange is over ("Connection: close", or the panicked task is gone);
\* the server goes on accepting (main.rs:282-286).
Close(r) ==
    /\ pc[r] \in { "done", "panicked" }
    /\ pc' = [pc EXCEPT ![r] = "idle"]
    /\ req' = [req EXCEPT ![r] = NoRequest]
    /\ resp' = [resp EXCEPT ![r] = NoResponse]
    /\ logs' = [logs EXCEPT ![r] = << >>]
    /\ opened' = [opened EXCEPT ![r] = << >>]
    /\ spawned' = [spawned EXCEPT ![r] = << >>]
    /\ child' = [child EXCEPT ![r] = NoChild]
    /\ writer' = [writer EXCEPT ![r] = NoWriter]
    /\ fault' = [fault EXCEPT ![r] = "none"]
    /\ UNCHANGED root

Next ==
    \E r \in { "c1" } :
        \/ Accept(r)
        \/ HandleRequest(r)
        \/ ServeStatic(r)
        \/ ScriptStartPost(r)
        \/ ScriptStartOther(r)
        \/ WriterStep(r)
        \/ ChildExit(r)
        \/ WaitDone(r)
        \/ Return(r)
        \/ Close(r)

Spec == Init /\ [][Next]_vars

\* A request for one of a few paths: a file, the deny path, a directory, a
\* script, missing paths under scripts and elsewhere, a path leaving root.
SomePaths ==
    { <<"index.html">>, <<"forbidden.html">>, <<"scripts">>,
      <<"scripts", "run.sh">>, <<"scripts", "missing">>, <<"missing">>,
      <<"..", "index.html">> }

AcceptSome(r) == AcceptFrom(r, SomePaths, { << >> }, { NoQuery })

\* The steps the runtime takes by itself once they are possible: tokio polls
\* a ready task, hyper takes the next request.  The exit of a script and the
\* progress of the stdin writer are not among them (a script may hang).
ServerStep(r) ==
    \/ AcceptSome(r)
    \/ HandleRequest(r)
    \/ ServeStatic(r)
    \/ ScriptStartPost(r)
    \/ ScriptStartOther(r)
    \/ WaitDone(r)
    \/ Return(r)
    \/ Close(r)

NextSome ==
    \E r \in { "c1" } :
        \/ AcceptSome(r)
        \/ HandleRequest(r)
        \/ ServeStatic(r)
        \/ ScriptStartPost(r)
        \/ ScriptStartOther(r)
        \/ WriterStep(r)
        \/ ChildExit(r)
        \/ WaitDone(r)
        \/ Return(r)
        \/ Close(r)

\* A step of the request of connection r.
StepOf(r) ==
    \/ AcceptSome(r)
    \/ HandleRequest(r)
    \/ ServeStatic(r)
    \/ ScriptStartPost(r)
    \/ ScriptStartOther(r)
    \/ WriterStep(r)
    \/ ChildExit(r)
    \/ WaitDone(r)
    \/ Return(r)
    \/ Close(r)

\* Every connection is served by its own task (main.rs:272-280): the steps
\* of the requests of two connections interleave.
NextConc == \E r \in Slots : StepOf(r)

SpecConc == Init /\ [][NextConc]_vars

\* One connection and the requests of SomePaths, with the runtime's fairness.
SpecLive == Init /\ [][NextSome]_vars /\ WF_vars(ServerStep("c1"))

\* A request for a script, with headers and a query string, up to the spawn
\* of the child with its environment.
AcceptScript(r) ==
    AcceptFrom(r, { <<"scripts", "run.sh">> }, HeaderLists, Queries)

NextEnv ==
    \E r \in { "c1" } :
        \/ AcceptScript(r)
        \/ HandleRequest(r)
        \/ ScriptStartPost(r)
        \/ ScriptStartOther(r)

SpecEnv == Init /\ [][NextEnv]_vars

\* The same server, started on any of the folders.
SpecRoots == InitRoots /\ [][Next]_vars

\* ------------------------------------------------------------- type check
TypeOK ==
    \A r \in Slots :
        /\ pc[r] \in { "idle", "recv", "static", "script", "wait", "respond",
                       "done", "panicked" }
        /\ req[r].method \in Methods /\ req[r].path \in Paths
        /\ req[r].headers \in HeaderLists /\ req[r].query \in Queries
        /\ resp[r].status \in { 0, 200, 403, 404, 405, 500 }
        /\ Len(logs[r]) <= 2
        /\ child[r].state \in { "none", "running", "exited" }
        /\ writer[r].state \in { "none", "pending", "done", "failed" }
        /\ fault[r] \in { "none", "open", "read", "body", "spawn", "wait" }

\* ================================================================== claims
Terminal(r) == pc[r] \in { "done", "panicked" }
Answered(r) == pc[r] \in { "respond", "done" }

HasDotDot(path) == \E i \in 1..Len(path) : path[i] = ".."

\* p, with its ".." resolved, names something inside the root folder.
InsideRoot(p) == Lookup(p).ok /\ StartsWith(Lookup(p).at, Root)

\* p, with its ".." resolved, names something inside <root>/scripts.
InsideScripts(p) == Lookup(p).ok /\ StartsWith(Lookup(p).at, ScriptsDir)

\* C1: every file opened for reading and every program spawned lies inside
\* the root folder once ".." is resolved.  The code does not keep this:
\* Path::starts_with is lexical and root.join(..) always starts with root.
C1_Sandbox ==
    \A r \in Slots :
        /\ \A i \in 1..Len(opened[r]) : InsideRoot(opened[r][i])
        /\ \A i \in 1..Len(spawned[r]) : InsideRoot(spawned[r][i])

\* C2: a request whose path has a ".." segment, or whose joined path resolves
\* outside the root, is answered 403.  The code answers some of them 200,
\* 404 or 405.
C2_TraversalForbidden ==
    \A r \in Slots :
        ( /\ pc[r] = "done"
          /\ \/ HasDotDot(req[r].path)
             \/ (Lookup(FullPath(r)).ok /\ ~InsideRoot(FullPath(r))) )
        => resp[r].status = 403

\* C3: a request of any method for an existing file under <root>/scripts is
\* answered only after that file was spawned, exactly once.  The code answers
\* GET .../simple.sh with a fixed body and spawns nothing.
C3_ScriptAlwaysRun ==
    \A r \in Slots :
        ( pc[r] = "done" /\ IsFile(FullPath(r)) /\ InsideScripts(FullPath(r)) )
        => spawned[r] = << FullPath(r) >>

\* C4: when the child ran to its exit and the request is answered, exit code
\* 0 gives 200 with stdout as the body and any other code gives 500 with
\* stderr as the body, for POST and for the other methods.
C4_ExitStatusMapping ==
    \A r \in Slots :
        ( Answered(r) /\ child[r].state = "exited" )
        => IF child[r].code = 0
           THEN resp[r].status = 200 /\ resp[r].body = child[r].stdout
           ELSE resp[r].status = 500 /\ resp[r].body = child[r].stderr

C4_Witness ==
    \E r \in Slots :
        /\ pc[r] = "done" /\ req[r].method = "POST"
        /\ child[r].state = "exited" /\ child[r].code = 2
        /\ child[r].stdout = <<"o1">> /\ child[r].stderr = <<"e1">>
        /\ resp[r].status = 500 /\ resp[r].body = <<"e1">>

\* C5: a script request that suffers a spawn failure, a stdin-write failure
\* or a wait failure never panics, and ends with a 500 response carrying a
\* generic body.  The code panics on .expect(..) and returns nothing.
C5_FailureGives500 ==
    \A r \in Slots :
        ( fault[r] \in { "spawn", "wait" } \/ writer[r].state = "failed" )
        => /\ pc[r] # "panicked"
           /\ pc[r] = "done" =>
                 /\ resp[r].status = 500
                 /\ resp[r].body \in { InternalErrorResponse.body,
                                       ScriptFailedResponse.body }

\* C6: a request that has its response (whatever the branch) has printed
\* exactly one log line, the line was printed before the response was
\* returned, and it carries the request's method and path and the
\* response's status.
C6_OneLogRecord ==
    \A r \in Slots :
        Answered(r) =>
            /\ Len(logs[r]) = 1
            /\ logs[r][1] = [method |-> req[r].method, path |-> req[r].path,
                             status |-> resp[r].status,
                             text |-> StatusText(resp[r].status)]

C6_Witness ==
    \E r \in Slots :
        /\ pc[r] = "done" /\ resp[r].status = 404
        /\ Len(logs[r]) = 1 /\ logs[r][1].status = 404

\* C7: the response to a POST to a script is not returned while the task
\* writing the body to the child's stdin is still pending.  The code detaches
\* that task and waits for the child only.
C7_WriterJoined ==
    \A r \in Slots :
        ( pc[r] = "done" /\ req[r].method = "POST" )
        => writer[r].state # "pending"

\* C8: a GET for a path that does not exist, under scripts or not, ends with
\* a 404 response.  Under <root>/scripts the code spawns the missing file (and
\* panics) or answers 200.
C8_MissingIs404 ==
    \A r \in Slots :
        ( Terminal(r) /\ req[r].method = "GET" /\ ~Lookup(FullPath(r)).ok )
        => ( pc[r] = "done" /\ resp[r].status = 404 )

\* C9 as stated: a GET for an existing non-directory file under root and not
\* under scripts is answered 200 with the file's bytes.
C9_Original ==
    \A r \in Slots :
        ( /\ pc[r] = "done" /\ req[r].method = "GET"
          /\ IsFile(FullPath(r)) /\ InsideRoot(FullPath(r))
          /\ ~InsideScripts(FullPath(r)) )
        => /\ resp[r].status = 200
           /\ resp[r].body = Files[Lookup(FullPath(r)).at].bytes

\* C9 as amended: a GET whose path is not /forbidden.html, whose joined path
\* does not start with <root>/scripts and names an existing non-directory file
\* under root and not under scripts, and whose open and read both succeed, is
\* answered 200 with the file's bytes.
C9_StaticFileServed ==
    \A r \in Slots :
        ( /\ Answered(r) /\ req[r].method = "GET"
          /\ IsFile(FullPath(r)) /\ InsideRoot(FullPath(r))
          /\ ~InsideScripts(FullPath(r))
          /\ ~IsForbiddenPath(req[r].path)
          /\ ~StartsWith(FullPath(r), ScriptsDir)
          /\ fault[r] = "none" )
        => /\ resp[r].status = 200
           /\ resp[r].body = Files[Lookup(FullPath(r)).at].bytes

C9_Witness ==
    \E r \in Slots :
        /\ pc[r] = "done" /\ req[r].method = "GET"
        /\ req[r].path = <<"sub", "..", "index.html">>
        /\ opened[r] = << FullPath(r) >>
        /\ resp[r].status = 200 /\ resp[r].body = <<"i1", "i2">>

LastHeader(headers, n) ==
    CHOOSE i \in 1..Len(headers) :
        /\ headers[i].name = n
        /\ \A j \in (i+1)..Len(headers) : headers[j].name # n

LastParam(pairs, k) ==
    CHOOSE i \in 1..Len(pairs) :
        /\ pairs[i].key = k
        /\ \A j \in (i+1)..Len(pairs) : pairs[j].key # k

C12_StdinIsBody ==
    \A r \in Slots :
        /\ ( req[r].method = "POST" /\ writer[r].state = "done" )
               => child[r].stdin = writer[r].body
        /\ ( req[r].method # "POST" /\ child[r].state # "none" )
               => ( writer[r].state = "none" /\ child[r].stdin = << >> )

C12_Witness ==
    \E r \in Slots :
        /\ req[r].method = "POST" /\ writer[r].state = "done"
        /\ writer[r].body = <<"b1", "b2">>
        /\ child[r].stdin = <<"b1", "b2">>
        /\ child[r].state = "exited" /\ pc[r] = "done"

\* The request of r ran into a failure: a panic of its task, an open, read,
\* body, spawn or wait error, or a failed write to the child's stdin.
Failed(r) ==
    pc[r] = "panicked" \/ fault[r] # "none" \/ writer[r].state = "failed"

\* C13: whatever failure a request runs into, the server takes the next
\* request of the connection afterwards.
C13_ServerSurvives == Failed("c1") ~> (pc["c1"] = "recv")

C13_Witness ==
    /\ pc["c1"] = "panicked" /\ fault["c1"] = "wait"
    /\ writer["c1"].state = "failed"

\* C14: a request whose joined path is a directory, or whose path is
\* /forbidden.html (with or without such a file), opens no file, spawns
\* nothing and is answered 403 with the fixed HTML body, whatever its method.
C14_DenyFirst ==
    \A r \in Slots :
        ( pc[r] # "idle" /\ ( IsDir(FullPath(r)) \/ req[r].path = <<"forbidden.html">> ) )
        => /\ opened[r] = << >> /\ spawned[r] = << >>
           /\ pc[r] \in { "recv", "respond", "done" }
           /\ Answered(r) =>
                 /\ resp[r].status = 403
                 /\ resp[r].body = <<"<html>403 Forbidden</html>">>
                 /\ resp[r].headers["Content-Type"] = "text/html; charset=utf-8"

C14_Witness ==
    \E r \in Slots :
        /\ root = <<"srv">> /\ req[r].path = <<"forbidden.html">>
        /\ ~Lookup(FullPath(r)).ok
        /\ req[r].method = "GET" /\ pc[r] = "done"
        /\ resp[r].status = 403

\* C15: every response handle_request builds, on every branch, carries the
\* header "Connection: close".
C15_ConnectionClose ==
    \A r \in Slots :
        Answered(r) =>
            /\ "Connection" \in DOMAIN resp[r].headers
            /\ resp[r].headers["Connection"] = "close"

C15_Witness ==
    \E r \in Slots :
        /\ pc[r] = "done" /\ fault[r] = "body"
        /\ resp[r].status = 500 /\ resp[r].body = <<"Failed to execute script">>
        /\ resp[r].headers["Connection"] = "close"

\* What a request is, does and answers.
View(r) == << pc[r], req[r], resp[r], logs[r], opened[r], spawned[r],
              child[r], writer[r], fault[r] >>

\* C16: with two connections served concurrently, whatever changes about a
\* request (its position, response, log line, child, ...) is a step of that
\* request as it is taken when the request is handled alone, never the
\* effect of a step of the other request; and no step changes root.
C16_NoSharedState ==
    [][ /\ \A r \in Slots : (View(r)' # View(r)) => StepOf(r)
        /\ root' = root ]_vars

C16_Witness ==
    /\ pc["c1"] = "done" /\ pc["c2"] = "wait"
    /\ req["c1"] = req["c2"] /\ req["c1"].path = <<"scripts", "run.sh">>
    /\ resp["c1"].status = 500 /\ child["c2"].state = "exited"
    /\ child["c2"].code = 0

\* C17: a read that fails after a successful open is answered 500 with the
\* body "Internal Server Error", and a 200 answer to a file that was opened
\* carries the whole file, never a proper prefix of it.
C17_NoPartialBody ==
    \A r \in Slots :
        /\ ( Answered(r) /\ fault[r] = "read" )
               => /\ resp[r].status = 500
                  /\ resp[r].body = <<"Internal Server Error">>
        /\ ( Answered(r) /\ opened[r] # << >> /\ resp[r].status = 200 )
               => resp[r].body = Files[Lookup(opened[r][1]).at].bytes

C17_Witness ==
    \E r \in Slots :
        /\ pc[r] = "done" /\ fault[r] = "read"
        /\ opened[r] = << <<"www", "index.html">> >>
        /\ resp[r].status = 500 /\ resp[r].body = <<"Internal Server Error">>

\* C18: two GET requests for the same file that run into the same outcome of
\* open and read (both succeed, in particular) get the same status, headers
\* and body: having served a file changes nothing for another request.
C18_StaticIdempotent ==
    \A r \in Slots, s \in Slots :
        ( /\ Answered(r) /\ Answered(s)
          /\ req[r] = req[s] /\ req[r].method = "GET"
          /\ Route("GET", req[r].path) = "static"
          /\ fault[r] = fault[s] )
        => resp[r] = resp[s]

C18_Witness ==
    /\ pc["c1"] = "done" /\ pc["c2"] = "done"
    /\ req["c1"] = req["c2"] /\ req["c1"].method = "GET"
    /\ req["c1"].path = <<"index.html">>
    /\ opened["c1"] = opened["c2"] /\ opened["c1"] # << >>
    /\ resp["c1"].status = 200 /\ resp["c2"].status = 200
    /\ resp["c1"].body = <<"i1", "i2">> /\ resp["c2"].body = <<"i1", "i2">>

\* C19: a child is spawned, or its spawn attempted, only for a request whose
\* joined path has <root>/scripts as a component-wise prefix; a request
\* answered 403, 404 or 405 has spawned nothing.
C19_SpawnOnlyUnderScripts ==
    \A r \in Slots :
        /\ ( spawned[r] # << >> \/ child[r].state # "none" \/ fault[r] = "spawn" )
               => StartsWith(FullPath(r), ScriptsDir)
        /\ ( Answered(r) /\ resp[r].status \in { 403, 404, 405 } )
               => ( spawned[r] = << >> /\ child[r].state = "none" )

C19_Witness ==
    \E r \in Slots :
        /\ req[r].method = "PUT"
        /\ req[r].path = <<"scripts", "..", "..", "run.sh">>
        /\ spawned[r] = << <<"www", "scripts", "..", "..", "run.sh">> >>
        /\ pc[r] = "done" /\ resp[r].status = 200

\* C20: a request of another method than GET for a path that does
\* not exist (and is not the deny path) is answered 405 and nothing is
\* spawned or attempted; a GET for a path that does not exist and whose joined
\* path is under <root>/scripts goes to handle_script, which attempts the
\* spawn (and fails).  The code answers a GET that ends in simple.sh with the
\* fixed response instead.
C20_MissingTargets ==
    \A r \in Slots :
        ( pc[r] # "idle" /\ ~Lookup(FullPath(r)).ok )
        => /\ ( req[r].method # "GET" /\ req[r].path # <<"forbidden.html">> )
                  => /\ pc[r] \in { "recv", "respond", "done" }
                     /\ spawned[r] = << >> /\ fault[r] = "none"
                     /\ Answered(r) => resp[r].status = 405
           /\ ( req[r].method = "GET" /\ StartsWith(FullPath(r), ScriptsDir) )
                  => /\ pc[r] \in { "recv", "script", "panicked" }
                     /\ pc[r] = "panicked" => fault[r] = "spawn"

====
